---- MODULE Spec2Model ----
(***************************************************************************)
(* Model of internal/tui/exp/list/list.go: the virtualized list widget     *)
(* (incremental renderer, render cache, scroll/viewport math, keyboard     *)
(* navigation, mouse text selection).                                      *)
(*                                                                         *)
(* Strings are sequences of one-character strings, so that byte offsets,   *)
(* newlines and slices behave as in the Go code.  Go indices are 0-based;  *)
(* TLA+ sequences are 1-based, so items.Get(i) is items[i + 1].            *)
(* The list struct is handled as a record l with the fields of the Go      *)
(* struct; every method is an operator from a list record to the list      *)
(* record the method leaves behind, and every action assigns the fields    *)
(* of that record to the variables.                                        *)
(***************************************************************************)
EXTENDS Integers, Sequences, FiniteSets, TLC

VARIABLES width, height, gap, wrap, direction, selectedItem, focused,
          offset, indexMap, items, renderedItems,
          rendered, renderedHeight, lineOffsets,
          movingByItem, prevSelectedItem,
          selectionStartCol, selectionStartLine,
          selectionEndCol, selectionEndLine, selectionActive,
          cachedView, cachedViewOffset, cachedViewDirty,
          cmds, hung

vars == <<width, height, gap, wrap, direction, selectedItem, focused,
          offset, indexMap, items, renderedItems,
          rendered, renderedHeight, lineOffsets,
          movingByItem, prevSelectedItem,
          selectionStartCol, selectionStartLine,
          selectionEndCol, selectionEndLine, selectionActive,
          cachedView, cachedViewOffset, cachedViewDirty,
          cmds, hung>>

\* ------------------------------------------------------------ bounds

\* Largest height (in lines) of an item view.
MaxItemHeight == 2
\* Largest viewport height given to WithSize / SetSize.
MaxHeight == 2
\* Largest gap given to WithGap.
MaxGap == 1
\* Largest line count given to MoveUp / MoveDown.
MaxMove == 2
\* Largest line index a render-cache entry may reach: in forward direction the
\* cached positions are never recomputed and drift upwards without limit.
MaxLine == 6

\* Largest offset, viewport height and rendered height viewPosition is given
\* when it is checked on its own.
MaxTotal == 4

\* ------------------------------------------------------------ constants

DirectionForward == 0
DirectionBackward == 1
ItemNotFound == -1
NoID == ""

\* ------------------------------------------------------------ strings

NL == "\n"
SP == " "

Max2(a, b) == IF a >= b THEN a ELSE b
Min2(a, b) == IF a <= b THEN a ELSE b
Clamp(v, lo, hi) == Min2(Max2(v, lo), hi)

\* strings.Count(s, "\n")
CountNL(s) == Cardinality({i \in DOMAIN s : s[i] = NL})

\* lipgloss.Height
StrHeight(s) == CountNL(s) + 1

\* strings.Repeat("\n", n)
RepeatNL(n) == [i \in 1..n |-> NL]

\* strings.IndexByte(s[from:], '\n'): 0-based index in the suffix, or -1
IndexNL(s, from) ==
    LET hits == {i \in (from + 1)..Len(s) : s[i] = NL}
    IN IF hits = {} THEN -1
       ELSE (CHOOSE i \in hits : \A j \in hits : i <= j) - (from + 1)

\* strings.Split(s, "\n")
RECURSIVE SplitFrom(_, _)
SplitFrom(s, from) ==
    LET idx == IndexNL(s, from)
    IN IF idx = -1 THEN <<SubSeq(s, from + 1, Len(s))>>
       ELSE <<SubSeq(s, from + 1, from + idx)>> \o SplitFrom(s, from + idx + 1)

Split(s) == SplitFrom(s, 0)

\* strings.Join(ls, "\n")
RECURSIVE JoinLines(_)
JoinLines(ls) ==
    IF Len(ls) = 0 THEN <<>>
    ELSE IF Len(ls) = 1 THEN ls[1]
    ELSE ls[1] \o <<NL>> \o JoinLines(Tail(ls))

\* ------------------------------------------------------------ items

\* Mark an item draws in front of each of its lines while it has focus.
FocusMark == ">"

\* item.View(): the lines of the item, each marked while the item is focused.
ItemView(it) ==
    JoinLines([i \in 1..Len(it.lines) |->
                 IF it.focused THEN <<FocusMark>> \o it.lines[i] ELSE it.lines[i]])

\* any(item).(layout.Focusable)
IsFocusable(it) == it.focusable

\* items.Get(i)
ItemsGet(l, i) == l.items[i + 1]

ItemsLen(l) == Len(l.items)

HasIndex(l, id) == id \in DOMAIN l.indexMap

HasRendered(l, id) == id \in DOMAIN l.renderedItems

\* csync.Map.Set
MapSet(m, k, v) == [x \in (DOMAIN m) \cup {k} |-> IF x = k THEN v ELSE m[x]]

\* csync.Map.Del
MapDel(m, k) == [x \in (DOMAIN m) \ {k} |-> m[x]]

EmptyMap == [x \in {} |-> 0]

\* The index map built by New / PrependItem / reset: position of every item.
RECURSIVE BuildIndexMap(_, _, _)
BuildIndexMap(its, i, m) ==
    IF i >= Len(its) THEN m
    ELSE BuildIndexMap(its, i + 1, MapSet(m, its[i + 1].id, i))

\* ------------------------------------------------------------ layout engine

\* A visible range whose start is not held back to its end.
viewPositionUnclamped(l) ==
    IF l.direction = DirectionForward
    THEN <<Max2(0, l.offset), Min2(l.offset + l.height - 1, l.renderedHeight - 1)>>
    ELSE <<Max2(0, (l.renderedHeight - 1) - l.offset - l.height + 1),
           Max2(0, (l.renderedHeight - 1) - l.offset)>>

\* viewPosition: the inclusive visible line range <<start, end>>
viewPosition(l) ==
    LET renderedLines == l.renderedHeight - 1
        start0 == IF l.direction = DirectionForward
                  THEN Max2(0, l.offset)
                  ELSE Max2(0, renderedLines - l.offset - l.height + 1)
        end0 == IF l.direction = DirectionForward
                THEN Min2(l.offset + l.height - 1, renderedLines)
                ELSE Max2(0, renderedLines - l.offset)
    IN <<Min2(start0, end0), end0>>

\* setRendered's scan: the byte offset of every line after the first
RECURSIVE ScanLineOffsets(_, _)
ScanLineOffsets(s, off) ==
    LET idx == IndexNL(s, off)
    IN IF idx = -1 THEN <<>>
       ELSE <<off + idx + 1>> \o ScanLineOffsets(s, off + idx + 1)

setRendered(l, s) ==
    [l EXCEPT !.rendered = s,
              !.renderedHeight = StrHeight(s),
              !.cachedViewDirty = TRUE,
              !.lineOffsets = IF Len(s) > 0 THEN <<0>> \o ScanLineOffsets(s, 0)
                              ELSE <<>>]

\* A slice that runs up to the start of the next line and so keeps the newline
\* that ends its last line.
getLinesThroughNewline(l, start, end) ==
    LET n == Len(l.lineOffsets)
        end1 == IF end >= n THEN n - 1 ELSE end
    IN IF n = 0 \/ start >= n THEN <<>>
       ELSE IF start > end1 THEN <<>>
       ELSE SubSeq(l.rendered, l.lineOffsets[start + 1] + 1,
                   IF end1 + 1 < n THEN l.lineOffsets[end1 + 2] ELSE Len(l.rendered))

\* getLines(start, end): lineOffsets is 0-based in Go, so lineOffsets[k] is
\* l.lineOffsets[k + 1]; rendered[a:b] is SubSeq(rendered, a + 1, b).
getLines(l, start, end) ==
    LET n == Len(l.lineOffsets)
        end1 == IF end >= n THEN n - 1 ELSE end
    IN IF n = 0 \/ start >= n THEN <<>>
       ELSE IF start > end1 THEN <<>>
       ELSE LET startOffset == l.lineOffsets[start + 1]
                endOffset0 == IF end1 + 1 < n THEN l.lineOffsets[end1 + 2] - 1
                              ELSE Len(l.rendered)
            IN IF startOffset >= Len(l.rendered) THEN <<>>
               ELSE SubSeq(l.rendered, startOffset + 1,
                           Min2(endOffset0, Len(l.rendered)))

\* recalculateItemPositionsFrom's loop from index i with running height cch
RECURSIVE RecalcLoop(_, _, _)
RecalcLoop(l, i, cch) ==
    IF i >= ItemsLen(l) THEN l
    ELSE LET id == ItemsGet(l, i).id
         IN IF ~HasRendered(l, id) THEN RecalcLoop(l, i + 1, cch)
            ELSE LET r == l.renderedItems[id]
                     r2 == [r EXCEPT !.start = cch, !.end = cch + r.height - 1]
                 IN RecalcLoop([l EXCEPT !.renderedItems = MapSet(@, id, r2)],
                               i + 1, r2.end + 1 + l.gap)

recalculateItemPositionsFrom(l, startIdx) ==
    LET prevId == IF startIdx > 0 /\ startIdx - 1 < ItemsLen(l)
                  THEN ItemsGet(l, startIdx - 1).id ELSE NoID
        cch == IF startIdx > 0 /\ startIdx - 1 < ItemsLen(l) /\ HasRendered(l, prevId)
               THEN l.renderedItems[prevId].end + 1 + l.gap
               ELSE 0
    IN RecalcLoop(l, startIdx, cch)

recalculateItemPositions(l) == recalculateItemPositionsFrom(l, 0)

\* ------------------------------------------------------------ navigation helpers

RECURSIVE firstSelectableItemAbove(_, _)
firstSelectableItemAbove(l, inx) ==
    LET cand == {i \in 0..(inx - 1) : i < ItemsLen(l) /\ IsFocusable(ItemsGet(l, i))}
    IN IF cand # {} THEN CHOOSE i \in cand : \A j \in cand : j <= i
       ELSE IF inx = 0 /\ l.wrap THEN firstSelectableItemAbove(l, ItemsLen(l))
       ELSE ItemNotFound

RECURSIVE firstSelectableItemBelow(_, _)
firstSelectableItemBelow(l, inx) ==
    LET cand == {i \in (inx + 1)..(ItemsLen(l) - 1) : i >= 0 /\ IsFocusable(ItemsGet(l, i))}
    IN IF cand # {} THEN CHOOSE i \in cand : \A j \in cand : i <= j
       ELSE IF inx = ItemsLen(l) - 1 /\ l.wrap THEN firstSelectableItemBelow(l, -1)
       ELSE ItemNotFound

\* A selection of the first item, focusable or not.
selectFirstItemAny(l) ==
    IF ItemsLen(l) > 0 THEN [l EXCEPT !.selectedItem = ItemsGet(l, 0).id] ELSE l

selectFirstItem(l) ==
    LET inx == firstSelectableItemBelow(l, -1)
    IN IF inx # ItemNotFound THEN [l EXCEPT !.selectedItem = ItemsGet(l, inx).id]
       ELSE l

selectLastItem(l) ==
    LET inx == firstSelectableItemAbove(l, ItemsLen(l))
    IN IF inx # ItemNotFound THEN [l EXCEPT !.selectedItem = ItemsGet(l, inx).id]
       ELSE l

\* A list that never picks a selection of its own.
setDefaultSelectedNever(l) == l

setDefaultSelected(l) ==
    IF l.selectedItem = NoID
    THEN IF l.direction = DirectionForward THEN selectFirstItem(l) ELSE selectLastItem(l)
    ELSE l

\* The item stored under id, through the index map (indexMap.Get, items.Get).
Lookup(l, id) ==
    IF HasIndex(l, id) /\ l.indexMap[id] >= 0 /\ l.indexMap[id] < ItemsLen(l)
    THEN l.indexMap[id] + 1
    ELSE 0

\* A focus change that leaves the cache entry of the item in place.
SetItemFocusKeepCache(l, p, b) == [l EXCEPT !.items[p].focused = b]

\* f.Blur() / f.Focus() on the item at 1-based position p, with its cache entry dropped
SetItemFocus(l, p, b) ==
    [l EXCEPT !.items[p].focused = b,
              !.renderedItems = MapDel(@, l.items[p].id)]

\* Lines 883-895: blur the previously selected item if it is another one.
BlurPrevious(l) ==
    LET pp == Lookup(l, l.prevSelectedItem)
    IN IF /\ l.prevSelectedItem # NoID
          /\ l.prevSelectedItem # l.selectedItem
          /\ pp # 0
          /\ IsFocusable(l.items[pp])
          /\ l.items[pp].focused
       THEN SetItemFocus(l, pp, FALSE)
       ELSE l

\* Lines 897-906: focus the currently selected item.
FocusCurrent(l) ==
    LET sp == Lookup(l, l.selectedItem)
    IN IF sp # 0 /\ IsFocusable(l.items[sp]) /\ ~l.items[sp].focused
       THEN SetItemFocus(l, sp, TRUE)
       ELSE l

\* Line 908
RememberSelected(l) == [l EXCEPT !.prevSelectedItem = l.selectedItem]

focusSelectedItem(l) ==
    IF l.selectedItem = NoID \/ ~l.focused THEN l
    ELSE RememberSelected(FocusCurrent(BlurPrevious(l)))

blurSelectedItem(l) ==
    IF l.selectedItem = NoID \/ l.focused THEN l
    ELSE LET sp == Lookup(l, l.selectedItem)
         IN IF sp # 0 /\ IsFocusable(l.items[sp]) /\ l.items[sp].focused
            THEN SetItemFocus(l, sp, FALSE)
            ELSE l

\* ------------------------------------------------------------ incremental renderer

\* renderItem
renderItem(it) ==
    [view |-> ItemView(it), height |-> StrHeight(ItemView(it)), start |-> 0, end |-> 0]

\* First loop of renderIterator from loop index i: st carries the list (its
\* render cache grows), the fragments so far, the running content height and
\* the index the loop stopped at.
RECURSIVE RenderLoop(_, _, _, _, _)
RenderLoop(l, i, limitHeight, cch, frags) ==
    IF i >= ItemsLen(l)
    THEN [l |-> l, frags |-> frags, finalIndex |-> ItemsLen(l)]
    ELSE IF limitHeight /\ cch >= l.height
    THEN [l |-> l, frags |-> frags, finalIndex |-> i]
    ELSE LET inx == IF l.direction = DirectionForward THEN i
                    ELSE (ItemsLen(l) - 1) - i
         IN IF inx < 0 THEN RenderLoop(l, i + 1, limitHeight, cch, frags)
            ELSE
            LET it == ItemsGet(l, inx)
                fresh == renderItem(it)
                rItem == IF HasRendered(l, it.id) THEN l.renderedItems[it.id]
                         ELSE [fresh EXCEPT !.start = cch,
                                            !.end = cch + fresh.height - 1]
                l1 == IF HasRendered(l, it.id) THEN l
                      ELSE [l EXCEPT !.renderedItems = MapSet(@, it.id, rItem)]
                g == IF inx = ItemsLen(l) - 1 THEN 0 ELSE l.gap + 1
            IN RenderLoop(l1, i + 1, limitHeight, rItem.end + 1 + l.gap,
                          Append(frags, rItem.view \o RepeatNL(g)))

RECURSIVE ConcatAll(_)
ConcatAll(ss) == IF Len(ss) = 0 THEN <<>> ELSE ss[1] \o ConcatAll(Tail(ss))

Reverse(ss) == [i \in 1..Len(ss) |-> ss[Len(ss) + 1 - i]]

\* A second loop that writes the fragments in the order the first loop made
\* them, in either direction.
WriteFragmentsInLoopOrder(st, buf) ==
    [l |-> st.l,
     rendered |-> IF st.l.direction = DirectionForward
                  THEN buf \o ConcatAll(st.frags)
                  ELSE ConcatAll(st.frags) \o buf,
     finalIndex |-> st.finalIndex]

\* renderIterator(startInx, limitHeight, rendered): the list with its cache
\* filled, the new buffer and the index at which the first loop stopped
\* Second loop of renderIterator: the fragments st.frags of the first loop
\* written after the buffer (forward) or, in reverse order, before it.
WriteFragments(st, buf) ==
    [l |-> st.l,
     rendered |-> IF st.l.direction = DirectionForward
                  THEN buf \o ConcatAll(st.frags)
                  ELSE ConcatAll(Reverse(st.frags)) \o buf,
     finalIndex |-> st.finalIndex]

renderIterator(l, startInx, limitHeight, buf) ==
    WriteFragments(RenderLoop(l, startInx, limitHeight, StrHeight(buf) - 1, <<>>), buf)

\* ------------------------------------------------------------ scroll into view

scrollToSelection(l) ==
    IF ~HasRendered(l, l.selectedItem)
    THEN setDefaultSelected([l EXCEPT !.selectedItem = NoID])
    ELSE
    LET rItem == l.renderedItems[l.selectedItem]
        vp == viewPosition(l)
        start == vp[1]
        end == vp[2]
        renderedLines == l.renderedHeight - 1
        done == [l EXCEPT !.movingByItem = FALSE]
    IN IF rItem.start <= start /\ rItem.end >= end THEN l
       ELSE IF l.movingByItem /\ rItem.start >= start /\ rItem.end <= end THEN l
       ELSE IF ~l.movingByItem /\ rItem.start >= start /\ rItem.start <= end THEN l
       ELSE IF ~l.movingByItem /\ rItem.end >= start /\ rItem.end <= end THEN l
       ELSE IF rItem.height >= l.height
       THEN IF l.direction = DirectionForward
            THEN [done EXCEPT !.offset = rItem.start]
            ELSE [done EXCEPT !.offset =
                      Max2(0, l.renderedHeight - (rItem.start + l.height))]
       ELSE IF rItem.start < start
       THEN IF l.direction = DirectionForward
            THEN [done EXCEPT !.offset = rItem.start]
            ELSE [done EXCEPT !.offset =
                      Max2(0, renderedLines - rItem.start - l.height + 1)]
       ELSE IF rItem.end > end
       THEN IF l.direction = DirectionForward
            THEN [done EXCEPT !.offset = Max2(0, rItem.end - l.height + 1)]
            ELSE [done EXCEPT !.offset = Max2(0, renderedLines - rItem.end)]
       ELSE done

\* ------------------------------------------------------------ render

\* Lines 638-649 and 661-670: render from index startInx onto buf, store the
\* buffer, fix positions in backward direction, scroll when focused.
\* Lines 641, 653, 663: the result r of renderIterator becomes the buffer.
StoreRendered(r) == setRendered(r.l, r.rendered)

\* Lines 643-645, 655-657, 665-667
FixPositions(l) ==
    IF l.direction = DirectionBackward THEN recalculateItemPositions(l) ELSE l

\* Lines 646-648, 668-670
ScrollIfFocused(l) == IF l.focused THEN scrollToSelection(l) ELSE l

RenderRest(l, startInx, buf) ==
    ScrollIfFocused(FixPositions(StoreRendered(renderIterator(l, startInx, FALSE, buf))))

\* Lines 658-673: the continuation renderCmd is returned with the finishIndex
\* r.finalIndex it captured; it is kept in cmds until it runs.
QueueRenderCmd(l, r) == [l EXCEPT !.cmds = Append(@, r.finalIndex)]

\* Lines 652-657 on the result r of the limited renderIterator
FirstPassDone(r) == QueueRenderCmd(FixPositions(StoreRendered(r)), r)

\* Lines 651-673: the first pass, limited to the viewport height.
RenderFirstPass(l) == FirstPassDone(renderIterator(l, 0, TRUE, <<>>))

\* Lines 632-637
FocusOrBlurSelected(l) ==
    IF l.focused THEN focusSelectedItem(l) ELSE blurSelectedItem(l)

\* Lines 638-673
RenderPass(l) ==
    IF l.rendered # <<>> THEN RenderRest(l, 0, <<>>) ELSE RenderFirstPass(l)

\* render(): the pending continuation command (renderCmd) is kept in cmds as the
\* finishIndex its closure captured.
render(l) ==
    IF l.width <= 0 \/ l.height <= 0 \/ ItemsLen(l) = 0 THEN l
    ELSE RenderPass(FocusOrBlurSelected(setDefaultSelected(l)))

\* renderCmd (the closure of lines 658-672) run with its captured finishIndex
renderCmd(l, finishIndex) ==
    RenderRest([l EXCEPT !.offset = 0], finishIndex, l.rendered)

\* execCmd: run the pending commands in order
RECURSIVE RunCmds(_)
RunCmds(l) ==
    IF Len(l.cmds) = 0 THEN l
    ELSE RunCmds(renderCmd([l EXCEPT !.cmds = Tail(@)], Head(l.cmds)))

\* ------------------------------------------------------------ passive re-selection

\* The search loops of changeSelectionWhenScrolling.  down selects the loop of
\* lines 762-786 (firstSelectableItemBelow, leading edge = start), otherwise the
\* loop of lines 794-818 (firstSelectableItemAbove, leading edge = end).  The Go
\* loop has no exit but "not found" or a match: when the search comes back to an
\* index it already tried, it runs forever, which is recorded in hung.
RECURSIVE ScrollSearch(_, _, _, _, _, _)
ScrollSearch(l, down, inx, tried, start, end) ==
    LET nxt == IF down THEN firstSelectableItemBelow(l, inx)
               ELSE firstSelectableItemAbove(l, inx)
    IN IF nxt = ItemNotFound THEN l
       ELSE IF nxt \in tried THEN [l EXCEPT !.hung = TRUE]
       ELSE LET it == ItemsGet(l, nxt)
            IN IF ~HasRendered(l, it.id)
               THEN ScrollSearch(l, down, nxt, tried \cup {nxt}, start, end)
               ELSE LET r == l.renderedItems[it.id]
                        edge == IF down THEN r.start ELSE r.end
                    IN IF \/ (r.start <= start /\ r.end >= end)
                          \/ (edge >= start /\ edge <= end)
                       THEN render([l EXCEPT !.selectedItem = it.id])
                       ELSE ScrollSearch(l, down, nxt, tried \cup {nxt}, start, end)

changeSelectionWhenScrolling(l) ==
    IF ~HasRendered(l, l.selectedItem) THEN l
    ELSE LET rItem == l.renderedItems[l.selectedItem]
             vp == viewPosition(l)
             start == vp[1]
             end == vp[2]
             itemMiddle == rItem.start + (rItem.height \div 2)
         IN IF rItem.start <= start /\ rItem.end >= end THEN l
            ELSE IF rItem.start >= start /\ rItem.end <= end THEN l
            ELSE IF itemMiddle < start
            THEN IF ~HasIndex(l, l.selectedItem) THEN l
                 ELSE ScrollSearch(l, TRUE, l.indexMap[l.selectedItem], {}, start, end)
            ELSE IF itemMiddle > end
            THEN IF ~HasIndex(l, l.selectedItem) THEN l
                 ELSE ScrollSearch(l, FALSE, l.indexMap[l.selectedItem], {}, start, end)
            ELSE l

\* ------------------------------------------------------------ mouse selection state

hasSelection(l) ==
    l.selectionEndCol # l.selectionStartCol \/ l.selectionEndLine # l.selectionStartLine

StartSelection(l, col, line) ==
    [l EXCEPT !.selectionStartCol = col, !.selectionStartLine = line,
              !.selectionEndCol = col, !.selectionEndLine = line,
              !.selectionActive = TRUE]

EndSelection(l, col, line) ==
    IF ~l.selectionActive THEN l
    ELSE [l EXCEPT !.selectionEndCol = col, !.selectionEndLine = line]

SelectionStop(l) == [l EXCEPT !.selectionActive = FALSE]

SelectionClear(l) ==
    [l EXCEPT !.selectionStartCol = -1, !.selectionStartLine = -1,
              !.selectionEndCol = -1, !.selectionEndLine = -1,
              !.selectionActive = FALSE]

\* ------------------------------------------------------------ screen

\* styles.SelectionIgnoreIcons: the icons that selection skips.
SpecialChars == {"*"}

\* Characters that are neither letters nor white space.
Punctuation == SpecialChars \cup {FocusMark}

SetMin(S) == CHOOSE x \in S : \A y \in S : x <= y
SetMax(S) == CHOOSE x \in S : \A y \in S : y <= x

\* unicode.IsSpace on the characters of the model
IsSpace(c) == c = SP \/ c = NL

\* strings.TrimSpace
TrimSpace(s) ==
    LET keep == {i \in DOMAIN s : ~IsSpace(s[i])}
    IN IF keep = {} THEN <<>> ELSE SubSeq(s, SetMin(keep), SetMax(keep))

\* A screen cell: its character and whether its style has a background.
Cell(c, b) == [ch |-> c, bg |-> b]

BlankCell == Cell(SP, FALSE)

\* A styled string is held as its lines of cells.  This is the string
\* t.S().Base.Height(h).Width(w).Render(view) gives for a plain view: every
\* line padded with blanks to w cells, blank lines added up to h lines.
BaseRender(view, w, h) ==
    LET ls == Split(view)
    IN [y \in 1..Max2(h, Len(ls)) |->
          [x \in 1..(IF y <= Len(ls) THEN Max2(w, Len(ls[y])) ELSE w) |->
              IF y <= Len(ls) /\ x <= Len(ls[y])
              THEN Cell(ls[y][x], FALSE) ELSE BlankCell]]

\* uv.NewStyledString(view).Draw(scr, area) on a fresh w x h screen buffer:
\* cell (x, y) is cell x of line y, blank where the string has none; what
\* lies outside the area is clipped.
Draw(view, w, h) ==
    [y \in 1..h |->
        [x \in 1..w |->
            IF y <= Len(view) /\ x <= Len(view[y]) THEN view[y][x] ELSE BlankCell]]

\* scr.Render(): the lines of the buffer, without the unstyled blanks that
\* trail each line.
ScreenRender(scr) ==
    [y \in DOMAIN scr |->
        LET used == {x \in DOMAIN scr[y] : scr[y][x] # BlankCell}
        IN IF used = {} THEN <<>> ELSE SubSeq(scr[y], 1, SetMax(used))]

\* ------------------------------------------------------------ selection view

\* selectionView's isNonWhitespace
isNonWhitespace(c) == c # SP /\ c # NL

\* The selection rectangle of the list.
SelArea(l) ==
    [minX |-> l.selectionStartCol, minY |-> l.selectionStartLine,
     maxX |-> l.selectionEndCol, maxY |-> l.selectionEndLine]

\* A rectangle whose columns are left as they are.
CanonRowsOnly(r) ==
    [r EXCEPT !.minY = Min2(r.minY, r.maxY), !.maxY = Max2(r.minY, r.maxY)]

\* uv.Rectangle.Canon: on each axis the smaller coordinate becomes Min.
Canon(r) ==
    [minX |-> Min2(r.minX, r.maxX), minY |-> Min2(r.minY, r.maxY),
     maxX |-> Max2(r.minX, r.maxX), maxY |-> Max2(r.minY, r.maxY)]

\* Lines 364-388: the selection bounds of screen line y (0-based).
lineSelections(selArea, y, scrWidth) ==
    IF y >= selArea.minY /\ y <= selArea.maxY
    THEN IF selArea.minY = selArea.maxY
         THEN [startX |-> selArea.minX, endX |-> selArea.maxX, inSelection |-> TRUE]
         ELSE IF y = selArea.minY
         THEN [startX |-> selArea.minX, endX |-> scrWidth, inSelection |-> TRUE]
         ELSE IF y = selArea.maxY
         THEN [startX |-> 0, endX |-> selArea.maxX, inSelection |-> TRUE]
         ELSE [startX |-> 0, endX |-> scrWidth, inSelection |-> TRUE]
    ELSE [startX |-> -1, endX |-> -1, inSelection |-> FALSE]

\* Lines 396-424: the text bounds of screen line y (0-based).
lineTextBounds(scr, y, inSelection) ==
    LET row == scr[y + 1]
        text == {x \in 0..(Len(row) - 1) :
                    \/ isNonWhitespace(row[x + 1].ch) /\ row[x + 1].ch \notin SpecialChars
                    \/ row[x + 1].bg}
    IN IF ~inSelection \/ text = {} THEN [start |-> -1, end |-> -1]
       ELSE [start |-> SetMin(text), end |-> SetMax(text) + 1]

\* A scan that takes the cell at the end column as well.
scanEndInclusive(textBounds, selBounds) ==
    Min2(textBounds.end, selBounds.endX + 1)

\* Lines 446-447: the columns scanStart <= x < scanEnd of a line
scanStart(textBounds, selBounds) == Max2(textBounds.start, selBounds.startX)

scanEnd(textBounds, selBounds) == Min2(textBounds.end, selBounds.endX)

\* Lines 449-474: the cells of line y the scan reaches and does not skip.
ScannedCells(scr, y, textBounds, selBounds) ==
    {x \in scanStart(textBounds, selBounds)..(scanEnd(textBounds, selBounds) - 1) :
        /\ x >= 0 /\ x < Len(scr[y + 1])
        /\ scr[y + 1][x + 1].ch \notin SpecialChars}

\* The characters of the cells xs of a row, from left to right.
RECURSIVE CellText(_, _)
CellText(row, xs) ==
    IF xs = {} THEN <<>>
    ELSE LET x == SetMin(xs)
         IN <<row[x + 1].ch>> \o CellText(row, xs \ {x})

\* Lines 429-480 with textOnly: the text collected from line y on.
RECURSIVE SelectedTextFrom(_, _, _)
SelectedTextFrom(scr, selArea, y) ==
    IF y >= Len(scr) THEN <<>>
    ELSE LET selBounds == lineSelections(selArea, y, Len(scr[y + 1]))
             textBounds == lineTextBounds(scr, y, selBounds.inSelection)
             rest == SelectedTextFrom(scr, selArea, y + 1)
         IN IF ~selBounds.inSelection THEN rest
            ELSE IF textBounds.start < 0 THEN <<NL>> \o rest
            ELSE CellText(scr[y + 1], ScannedCells(scr, y, textBounds, selBounds))
                     \o <<NL>> \o rest

\* Lines 429-480 without textOnly: the scanned cells get the background of the
\* text selection style.
HighlightScreen(scr, selArea) ==
    [y1 \in DOMAIN scr |->
        LET selBounds == lineSelections(selArea, y1 - 1, Len(scr[y1]))
            textBounds == lineTextBounds(scr, y1 - 1, selBounds.inSelection)
            xs == IF selBounds.inSelection /\ textBounds.start >= 0
                  THEN ScannedCells(scr, y1 - 1, textBounds, selBounds) ELSE {}
        IN [x1 \in DOMAIN scr[y1] |->
              IF (x1 - 1) \in xs THEN Cell(scr[y1][x1].ch, TRUE) ELSE scr[y1][x1]]]

selectionView(l, view, textOnly) ==
    LET scr == Draw(view, l.width, l.height)
        selArea == Canon(SelArea(l))
    IN IF textOnly THEN TrimSpace(SelectedTextFrom(scr, selArea, 0))
       ELSE ScreenRender(HighlightScreen(scr, selArea))

\* View() of a list built without WithResizeByList; a view with a selection is
\* never taken from the view cache.
\* Line 494: View() returns the view it stored.
CachedViewValid(l) ==
    /\ ~l.cachedViewDirty
    /\ l.cachedViewOffset = l.offset
    /\ ~hasSelection(l)
    /\ l.cachedView # <<>>

View(l) ==
    IF l.height <= 0 \/ l.width <= 0 THEN <<>>
    ELSE IF CachedViewValid(l) THEN l.cachedView
    ELSE LET vp == viewPosition(l)
             viewStart == Max2(0, vp[1])
             viewEnd == vp[2]
         IN IF viewStart > viewEnd THEN <<>>
            ELSE LET view == BaseRender(getLines(l, viewStart, viewEnd),
                                        l.width, l.height)
                 IN IF ~hasSelection(l) THEN view
                    ELSE selectionView(l, view, FALSE)

\* Lines 519-524: the list after View() returned v; a view without a
\* selection that was not taken from the cache is stored.
AfterView(l, v) ==
    IF l.height <= 0 \/ l.width <= 0 THEN l
    ELSE IF CachedViewValid(l) THEN l
    ELSE IF Max2(0, viewPosition(l)[1]) > viewPosition(l)[2] THEN l
    ELSE IF hasSelection(l) THEN l
    ELSE [l EXCEPT !.cachedView = v, !.cachedViewOffset = l.offset,
                   !.cachedViewDirty = FALSE]

GetSelectedText(l) ==
    IF ~hasSelection(l) THEN <<>>
    ELSE selectionView(l, View(l), TRUE)

\* ------------------------------------------------------------ word and paragraph

\* Word-break class of a character (UAX #29 on the characters of the model).
WordClass(c) ==
    IF c = SP THEN "space"
    ELSE IF c \in Punctuation \/ c = NL THEN "other"
    ELSE "letter"

\* gr.IsWordBoundary() at the k-th (0-based) character of s: a word ends
\* after it.  Letters stay together, runs of blanks stay together.
IsWordBoundary(s, k) ==
    \/ k = Len(s) - 1
    \/ WordClass(s[k + 1]) # WordClass(s[k + 2])
    \/ WordClass(s[k + 1]) = "other"

\* A buffer line taken without the offset.
BufferLineNoOffset(l, n, line) ==
    IF l.direction = DirectionBackward /\ n > l.height
    THEN ((n - 1) - l.height) + line + 1 ELSE line

\* Lines 1527-1537, 1575-1585: the line of the rendered buffer a screen line
\* stands for.
BufferLine(l, n, line) ==
    LET line1 == IF l.direction = DirectionBackward /\ n > l.height
                 THEN ((n - 1) - l.height) + line + 1 ELSE line
    IN IF l.offset > 0
       THEN IF l.direction = DirectionBackward THEN line1 - l.offset
            ELSE line1 + l.offset
       ELSE line1

\* Lines 1547-1558: the loop over the characters from the k-th on; upTo is
\* col - k.
RECURSIVE WordLoop(_, _, _, _, _)
WordLoop(s, col, k, startCol, endCol) ==
    IF k >= Len(s) THEN <<startCol, endCol, FALSE>>
    ELSE LET upTo == col - k
             startCol1 == IF IsWordBoundary(s, k) /\ upTo > 0
                          THEN col - upTo + 1 ELSE startCol
         IN IF IsWordBoundary(s, k) /\ upTo < 0
            THEN <<startCol, col - upTo + 1, FALSE>>
            ELSE IF upTo = 0 /\ s[k + 1] = SP THEN <<0, 0, TRUE>>
            ELSE WordLoop(s, col, k + 1, startCol1, endCol)

\* findWordBoundaries(col, line): <<startCol, endCol>>
findWordBoundaries(l, col, line) ==
    LET lines == Split(l.rendered)
        line1 == BufferLine(l, Len(lines), line)
    IN IF line1 < 0 \/ line1 >= Len(lines) THEN <<0, 0>>
       ELSE LET res == WordLoop(lines[line1 + 1], col, 0, -1, 0)
            IN IF res[3] THEN <<0, 0>>
               ELSE IF res[1] = -1 THEN <<0, 0>>
               ELSE <<res[1], res[2]>>

\* A line of the buffer with its icons blanked is empty after TrimSpace.
IsBlankLine(s) ==
    \A i \in DOMAIN s : IsSpace(s[i]) \/ s[i] \in SpecialChars

\* findParagraphBoundaries(line): <<startLine, endLine, found>>
findParagraphBoundaries(l, line) ==
    LET lines == Split(l.rendered)
        n == Len(lines)
        line1 == BufferLine(l, n, line)
    IN IF line1 < 0 \/ line1 >= n THEN <<0, 0, FALSE>>
       ELSE IF IsBlankLine(lines[line1 + 1]) THEN <<0, 0, FALSE>>
       ELSE LET blankAbove == {i \in 0..(line1 - 1) : IsBlankLine(lines[i + 1])}
                blankBelow == {i \in (line1 + 1)..(n - 1) : IsBlankLine(lines[i + 1])}
                startLine == IF blankAbove = {} THEN 0 ELSE SetMax(blankAbove) + 1
                endLine == IF blankBelow = {} THEN n - 1 ELSE SetMin(blankBelow) - 1
                back == IF l.direction = DirectionBackward /\ n > l.height
                        THEN 0 - (n - 1) + l.height - 1 ELSE 0
                off == IF l.offset > 0
                       THEN IF l.direction = DirectionBackward THEN l.offset
                            ELSE 0 - l.offset
                       ELSE 0
            IN <<startLine + back + off, endLine + back + off, TRUE>>

SelectWord(l, col, line) ==
    LET b == findWordBoundaries(l, col, line)
    IN [l EXCEPT !.selectionStartCol = b[1], !.selectionStartLine = line,
                 !.selectionEndCol = b[2], !.selectionEndLine = line,
                 !.selectionActive = FALSE]

SelectParagraph(l, col, line) ==
    LET b == findParagraphBoundaries(l, line)
    IN IF ~b[3] THEN l
       ELSE [l EXCEPT !.selectionStartCol = 0, !.selectionStartLine = b[1],
                      !.selectionEndCol = l.width - 1, !.selectionEndLine = b[2],
                      !.selectionActive = FALSE]

\* ------------------------------------------------------------ scrolling

\* An offset that never grows.
incrementOffsetNever(l, n) == l

incrementOffset(l, n) ==
    IF l.renderedHeight <= l.height THEN l
    ELSE LET maxOffset == l.renderedHeight - l.height
             m == Min2(n, maxOffset - l.offset)
         IN IF m <= 0 THEN l
            ELSE [l EXCEPT !.offset = l.offset + m, !.cachedViewDirty = TRUE]

decrementOffset(l, n) ==
    LET m == Min2(n, l.offset)
    IN IF m <= 0 THEN l
       ELSE [l EXCEPT !.offset = Max2(0, l.offset - m), !.cachedViewDirty = TRUE]

\* Lines 1221-1236 / 1254-1269: the selection endpoints follow the scroll by d
\* lines (d = -n in MoveDown, +n in MoveUp).
ShiftSelection(l, d, startFirst) ==
    LET l1 == IF hasSelection(l) /\ ~l.selectionActive
              THEN [l EXCEPT !.selectionStartLine = @ + d, !.selectionEndLine = @ + d]
              ELSE l
    IN IF l1.selectionActive
       THEN IF startFirst
            THEN [l1 EXCEPT !.selectionStartLine = @ + d]
            ELSE [l1 EXCEPT !.selectionEndLine = @ + d]
       ELSE l1

MoveDown(l, n) ==
    LET l1 == IF l.direction = DirectionForward THEN incrementOffset(l, n)
              ELSE decrementOffset(l, n)
    IN IF l1.offset = l.offset THEN l1
       ELSE changeSelectionWhenScrolling(
                ShiftSelection(l1, 0 - n, l1.selectionStartLine < l1.selectionEndLine))

MoveUp(l, n) ==
    LET l1 == IF l.direction = DirectionForward THEN decrementOffset(l, n)
              ELSE incrementOffset(l, n)
    IN IF l1.offset = l.offset THEN l1
       ELSE changeSelectionWhenScrolling(
                ShiftSelection(l1, n, l1.selectionStartLine > l1.selectionEndLine))

GoToBottom(l) ==
    render([l EXCEPT !.offset = 0, !.selectedItem = NoID,
                     !.direction = DirectionBackward])

GoToTop(l) ==
    render([l EXCEPT !.offset = 0, !.selectedItem = NoID,
                     !.direction = DirectionForward])

\* ------------------------------------------------------------ item mutators

\* Lines 1074-1081 / 1302-1309: keep the window on the same lines after an
\* item was added on the far side of the scroll anchor.
ShiftOffsetForNewItem(l, id) ==
    IF HasRendered(l, id)
    THEN LET newLines == l.renderedItems[id].height
                         + (IF ItemsLen(l) > 1 THEN l.gap ELSE 0)
         IN [l EXCEPT !.offset = Min2(l.renderedHeight - 1, l.offset + newLines)]
    ELSE l

\* Lines 1067-1083: after the render of AppendItem
AfterAppend(l, id) ==
    IF l.direction = DirectionBackward
    THEN IF l.offset = 0 THEN GoToBottom(l)
         ELSE ShiftOffsetForNewItem(l, id)
    ELSE l

AppendItem(l, it) ==
    AfterAppend(render([l EXCEPT !.items = Append(@, it),
                                 !.indexMap = MapSet(@, it.id, ItemsLen(l))]),
                it.id)

\* Lines 1295-1311: after the render of PrependItem
AfterPrepend(l, id) ==
    IF l.direction = DirectionForward
    THEN IF l.offset = 0 THEN GoToTop(l)
         ELSE ShiftOffsetForNewItem(l, id)
    ELSE l

PrependItem(l, it) ==
    AfterPrepend(render([l EXCEPT !.items = <<it>> \o @,
                                  !.indexMap = BuildIndexMap(<<it>> \o l.items,
                                                             0, EmptyMap)]),
                 it.id)

\* items.Delete(inx)
SeqDelete(s, p) == [i \in 1..(Len(s) - 1) |-> IF i < p THEN s[i] ELSE s[i + 1]]

\* Lines 1103-1109: re-index the items from inx on
RECURSIVE ReindexFrom(_, _, _)
ReindexFrom(its, i, m) ==
    IF i >= Len(its) THEN m
    ELSE ReindexFrom(its, i + 1, MapSet(m, its[i + 1].id, i))

\* Lines 1124-1133
ClampOffsetAfterDelete(l) ==
    IF l.rendered # <<>>
    THEN IF l.renderedHeight <= l.height THEN [l EXCEPT !.offset = 0]
         ELSE IF l.offset > l.renderedHeight - l.height
         THEN [l EXCEPT !.offset = l.renderedHeight - l.height]
         ELSE l
    ELSE l

DeleteItem(l, id) ==
    IF ~HasIndex(l, id) THEN l
    ELSE LET inx == l.indexMap[id]
             its == SeqDelete(l.items, inx + 1)
             l1 == [l EXCEPT !.items = its,
                             !.renderedItems = MapDel(@, id),
                             !.indexMap = ReindexFrom(its, inx, MapDel(@, id))]
             l2 == IF l1.selectedItem = id
                   THEN IF inx > 0
                        THEN [l1 EXCEPT !.selectedItem = ItemsGet(l1, inx - 1).id]
                        ELSE [l1 EXCEPT !.selectedItem = NoID]
                   ELSE l1
         IN ClampOffsetAfterDelete(render(l2))

\* Lines 1466-1481: after the render of UpdateItem; old is the list as it
\* was when UpdateItem was called, l the list after the render.
AfterUpdate(l, old, id, newId) ==
    LET hasOldItem == HasRendered(old, id)
        oldItem == old.renderedItems[id]
        oldPosition == IF old.direction = DirectionBackward
                       THEN (old.renderedHeight - 1) - old.offset
                       ELSE old.offset
        adjusted == IF HasRendered(l, newId)
                    THEN [l EXCEPT !.offset =
                             Clamp(l.offset + l.renderedItems[newId].height
                                       - oldItem.height,
                                   0, l.renderedHeight - 1)]
                    ELSE l
    IN IF hasOldItem /\ l.direction = DirectionBackward
       THEN IF oldPosition < oldItem.end THEN adjusted ELSE l
       ELSE IF hasOldItem /\ l.offset > oldItem.start THEN adjusted
       ELSE l

UpdateItem(l, id, it) ==
    IF ~HasIndex(l, id) THEN l
    ELSE AfterUpdate(render([l EXCEPT !.items[l.indexMap[id] + 1] = it,
                                      !.renderedItems = MapDel(@, id)]),
                     l, id, it.id)

\* reset(selectedItem)
reset(l, sel) ==
    render([l EXCEPT !.rendered = <<>>,
                     !.renderedHeight = 0,
                     !.offset = 0,
                     !.selectedItem = sel,
                     !.indexMap = BuildIndexMap(l.items, 0, EmptyMap),
                     !.renderedItems = EmptyMap])

SetItems(l, its) == reset([l EXCEPT !.items = its], NoID)

SetSize(l, w, h) ==
    LET l1 == [l EXCEPT !.width = w, !.height = h]
    IN IF l.width # w THEN reset(l1, l1.selectedItem) ELSE l1

SetSelected(l, id) ==
    render([l EXCEPT !.prevSelectedItem = l.selectedItem, !.selectedItem = id])

Focus(l) == render([l EXCEPT !.focused = TRUE])

Blur(l) == render([l EXCEPT !.focused = FALSE])

\* Lines 1343-1350 / 1369-1372: select the item at newIndex, moving by item
SelectAt(l, newIndex) ==
    render([l EXCEPT !.prevSelectedItem = l.selectedItem,
                     !.selectedItem = ItemsGet(l, newIndex).id,
                     !.movingByItem = TRUE])

\* Lines 1329-1342: the item above is the second item and nothing selectable
\* lies above it: go to the top first.
TopFirst(l, newIndex) ==
    IF newIndex = 1 /\ firstSelectableItemAbove(l, newIndex) = ItemNotFound
    THEN GoToTop(l) ELSE l

SelectItemAbove(l) ==
    IF ~HasIndex(l, l.selectedItem) THEN l
    ELSE LET newIndex == firstSelectableItemAbove(l, l.indexMap[l.selectedItem])
         IN IF newIndex = ItemNotFound THEN l
            ELSE SelectAt(TopFirst(l, newIndex), newIndex)

SelectItemBelow(l) ==
    IF ~HasIndex(l, l.selectedItem) THEN l
    ELSE LET newIndex == firstSelectableItemBelow(l, l.indexMap[l.selectedItem])
         IN IF newIndex = ItemNotFound THEN l
            ELSE SelectAt(l, newIndex)

\* ------------------------------------------------------------ state

\* The list struct as a record of the variables.
L ==
    [width |-> width, height |-> height, gap |-> gap, wrap |-> wrap,
     direction |-> direction, selectedItem |-> selectedItem, focused |-> focused,
     offset |-> offset, indexMap |-> indexMap, items |-> items,
     renderedItems |-> renderedItems, rendered |-> rendered,
     renderedHeight |-> renderedHeight, lineOffsets |-> lineOffsets,
     movingByItem |-> movingByItem, prevSelectedItem |-> prevSelectedItem,
     selectionStartCol |-> selectionStartCol,
     selectionStartLine |-> selectionStartLine,
     selectionEndCol |-> selectionEndCol, selectionEndLine |-> selectionEndLine,
     selectionActive |-> selectionActive,
     cachedView |-> cachedView, cachedViewOffset |-> cachedViewOffset,
     cachedViewDirty |-> cachedViewDirty, cmds |-> cmds, hung |-> hung]

\* The method left the list as r.
Apply(r) ==
    /\ \A id \in DOMAIN r.renderedItems : r.renderedItems[id].end <= MaxLine
    /\ width' = r.width
    /\ height' = r.height
    /\ gap' = r.gap
    /\ wrap' = r.wrap
    /\ direction' = r.direction
    /\ selectedItem' = r.selectedItem
    /\ focused' = r.focused
    /\ offset' = r.offset
    /\ indexMap' = r.indexMap
    /\ items' = r.items
    /\ renderedItems' = r.renderedItems
    /\ rendered' = r.rendered
    /\ renderedHeight' = r.renderedHeight
    /\ lineOffsets' = r.lineOffsets
    /\ movingByItem' = r.movingByItem
    /\ prevSelectedItem' = r.prevSelectedItem
    /\ selectionStartCol' = r.selectionStartCol
    /\ selectionStartLine' = r.selectionStartLine
    /\ selectionEndCol' = r.selectionEndCol
    /\ selectionEndLine' = r.selectionEndLine
    /\ selectionActive' = r.selectionActive
    /\ cachedView' = r.cachedView
    /\ cachedViewOffset' = r.cachedViewOffset
    /\ cachedViewDirty' = r.cachedViewDirty
    /\ cmds' = r.cmds
    /\ hung' = r.hung

\* The list starts as r.
StartAs(r) ==
    /\ width = r.width
    /\ height = r.height
    /\ gap = r.gap
    /\ wrap = r.wrap
    /\ direction = r.direction
    /\ selectedItem = r.selectedItem
    /\ focused = r.focused
    /\ offset = r.offset
    /\ indexMap = r.indexMap
    /\ items = r.items
    /\ renderedItems = r.renderedItems
    /\ rendered = r.rendered
    /\ renderedHeight = r.renderedHeight
    /\ lineOffsets = r.lineOffsets
    /\ movingByItem = r.movingByItem
    /\ prevSelectedItem = r.prevSelectedItem
    /\ selectionStartCol = r.selectionStartCol
    /\ selectionStartLine = r.selectionStartLine
    /\ selectionEndCol = r.selectionEndCol
    /\ selectionEndLine = r.selectionEndLine
    /\ selectionActive = r.selectionActive
    /\ cachedView = r.cachedView
    /\ cachedViewOffset = r.cachedViewOffset
    /\ cachedViewDirty = r.cachedViewDirty
    /\ cmds = r.cmds
    /\ hung = r.hung

\* New(items, WithSize(w, h), WithGap(g), WithWrapNavigation if wr,
\*     WithDirectionForward/Backward, WithFocus(f))
New(its, w, h, g, wr, dir, f) ==
    [width |-> w, height |-> h, gap |-> g, wrap |-> wr,
     direction |-> dir, selectedItem |-> NoID, focused |-> f,
     offset |-> 0, indexMap |-> BuildIndexMap(its, 0, EmptyMap), items |-> its,
     renderedItems |-> EmptyMap, rendered |-> <<>>,
     renderedHeight |-> 0, lineOffsets |-> <<>>,
     movingByItem |-> FALSE, prevSelectedItem |-> NoID,
     selectionStartCol |-> -1, selectionStartLine |-> -1,
     selectionEndCol |-> -1, selectionEndLine |-> -1,
     selectionActive |-> FALSE,
     cachedView |-> <<>>, cachedViewOffset |-> 0, cachedViewDirty |-> FALSE,
     cmds |-> <<>>, hung |-> FALSE]

\* The main loop takes the next message: the commands of the last one have run
\* and no handler is stuck.
Idle == cmds = <<>> /\ ~hung

\* ------------------------------------------------------------ inputs

\* Identifiers of the focusable items handed to the list.
Ids == {"a", "b"}
\* Identifiers of the items that are not focusable (static separators).
Separators == {"s"}
\* An identifier no item carries.
UnknownID == "z"
\* Width given to WithSize / SetSize.
ViewWidth == 12
\* Viewport heights given to WithSize / SetSize: one line, and the largest.
Heights == {1, MaxHeight}
\* Gaps given to WithGap: none, and the largest.
Gaps == {0, MaxGap}

\* An unfocused item with identifier id whose view has h lines.
Item(id, h) ==
    [id |-> id, lines |-> [i \in 1..h |-> <<id>>],
     focusable |-> id \notin Separators, focused |-> FALSE]

\* The items of the main specification: focusable items of every height.
Items == {Item(id, h) : id \in Ids, h \in 1..MaxItemHeight}

IdsOf(its) == {its[i].id : i \in DOMAIN its}

\* Sequences of the items of U with unique identifiers.
ItemSeqs(U) ==
    {s \in UNION {[1..n -> U] : n \in 0..Cardinality({x.id : x \in U})} :
        \A i, j \in DOMAIN s : i # j => s[i].id # s[j].id}

\* The sequences SetItems is given: the empty one and the single items (longer
\* sequences are loaded by New).
ShortSeqs(U) == {s \in ItemSeqs(U) : Len(s) <= 1}

\* ------------------------------------------------------------ actions

InitCall == Idle /\ Apply(render(L))

RunCmd ==
    /\ cmds # <<>>
    /\ ~hung
    /\ Apply(renderCmd([L EXCEPT !.cmds = Tail(@)], Head(cmds)))

DoAppendItem(U) ==
    /\ Idle
    /\ \E it \in U : it.id \notin IdsOf(items) /\ Apply(AppendItem(L, it))

DoPrependItem(U) ==
    /\ Idle
    /\ \E it \in U : it.id \notin IdsOf(items) /\ Apply(PrependItem(L, it))

\* The new item is an updated copy of the stored one: same identifier, same
\* focus state, another view.
DoUpdateItem ==
    /\ Idle
    /\ \E p \in DOMAIN items, h \in 1..MaxItemHeight :
          /\ Apply(UpdateItem(L, items[p].id,
                           [items[p] EXCEPT !.lines = Item(items[p].id, h).lines]))

DoDeleteItem(S) ==
    /\ Idle
    /\ \E id \in S : Apply(DeleteItem(L, id))

DoSetItems(U) ==
    /\ Idle
    /\ \E its \in ShortSeqs(U) : Apply(SetItems(L, its))

DoSetSize ==
    /\ Idle
    /\ \E w \in {ViewWidth}, h \in Heights : Apply(SetSize(L, w, h))

\* The program draws the list.
DoView == Idle /\ Apply(AfterView(L, View(L)))

DoSetSelected(S) ==
    /\ Idle
    /\ \E id \in S : Apply(SetSelected(L, id))

DoMoveUp == Idle /\ \E n \in 0..MaxMove : Apply(MoveUp(L, n))

DoMoveDown == Idle /\ \E n \in 0..MaxMove : Apply(MoveDown(L, n))

DoGoToTop == Idle /\ Apply(GoToTop(L))

DoGoToBottom == Idle /\ Apply(GoToBottom(L))

DoSelectItemAbove == Idle /\ Apply(SelectItemAbove(L))

DoSelectItemBelow == Idle /\ Apply(SelectItemBelow(L))

DoFocus == Idle /\ Apply(Focus(L))

DoBlur == Idle /\ Apply(Blur(L))

\* ------------------------------------------------------------ specification

Init ==
    \E its \in ItemSeqs(Items), h \in Heights, g \in Gaps,
       dir \in {DirectionForward, DirectionBackward} :
        StartAs(New(its, ViewWidth, h, g, FALSE, dir, TRUE))

Next ==
    \/ InitCall
    \/ RunCmd
    \/ DoAppendItem(Items)
    \/ DoPrependItem(Items)
    \/ DoUpdateItem
    \/ DoDeleteItem(Ids \cup {UnknownID})
    \/ DoSetItems(Items)
    \/ DoSetSize
    \/ DoSetSelected(Ids \cup {UnknownID})
    \/ DoMoveUp
    \/ DoMoveDown
    \/ DoGoToTop
    \/ DoGoToBottom
    \/ DoSelectItemAbove
    \/ DoSelectItemBelow
    \/ DoFocus
    \/ DoBlur

Spec == Init /\ [][Next]_vars

\* ---- Navigation: lists that hold separators, with and without wrap
\* navigation; the items are loaded by New and only leave the list.

NavItems == Items \cup {Item(id, 1) : id \in Separators}

InitNav ==
    \E its \in ItemSeqs(NavItems), h \in Heights, g \in Gaps, wr \in BOOLEAN,
       dir \in {DirectionForward, DirectionBackward} :
        StartAs(New(its, ViewWidth, h, g, wr, dir, TRUE))

NextNav ==
    \/ InitCall
    \/ RunCmd
    \/ DoDeleteItem(Ids \cup Separators)
    \/ DoSetSelected(Ids \cup Separators)
    \/ DoMoveUp
    \/ DoMoveDown
    \/ DoGoToTop
    \/ DoGoToBottom
    \/ DoSelectItemAbove
    \/ DoSelectItemBelow

SpecNav == InitNav /\ [][NextNav]_vars

\* ---- Text selection: lists of text items that are not focusable (their views
\* carry no focus mark), scrolled line by line while nothing is selected, with
\* mouse selections between any two cells of the screen.

HelloWorld == <<"h", "e", "l", "l", "o", " ", "w", "o", "r", "l", "d">>
FooBarBaz == <<"f", "o", "o", " ", "b", "a", "r", " ", "b", "a", "z">>
StarAb == <<"*", " ", "a", "b">>

\* A text item that cannot take focus.
TextItem(id, lines) ==
    [id |-> id, lines |-> lines, focusable |-> FALSE, focused |-> FALSE]

TextItems ==
    {TextItem("h", <<HelloWorld>>), TextItem("f", <<FooBarBaz>>),
     TextItem("n", <<StarAb, <<>>>>)}

\* The lists of the selection specification hold at most two text items.
TextSeqs == {s \in ItemSeqs(TextItems) : Len(s) <= 2}

\* Screen columns and lines a mouse event can carry.
Cols == 0..(ViewWidth - 1)
ScreenLines == 0..(height - 1)

DoStartSelection ==
    /\ Idle
    /\ \E col \in Cols, line \in ScreenLines : Apply(StartSelection(L, col, line))

DoEndSelection ==
    /\ Idle
    /\ \E col \in Cols, line \in ScreenLines : Apply(EndSelection(L, col, line))

DoSelectionStop == Idle /\ Apply(SelectionStop(L))

DoSelectionClear == Idle /\ Apply(SelectionClear(L))

DoSelectWord ==
    /\ Idle
    /\ \E col \in Cols, line \in ScreenLines : Apply(SelectWord(L, col, line))

DoSelectParagraph ==
    /\ Idle
    /\ \E col \in Cols, line \in ScreenLines : Apply(SelectParagraph(L, col, line))

\* The mouse wheel turns one line while nothing is selected.
DoScrollUp ==
    /\ Idle
    /\ ~hasSelection(L) /\ ~selectionActive
    /\ Apply(MoveUp(L, 1))

DoScrollDown ==
    /\ Idle
    /\ ~hasSelection(L) /\ ~selectionActive
    /\ Apply(MoveDown(L, 1))

InitSel ==
    \E its \in TextSeqs, h \in Heights,
       dir \in {DirectionForward, DirectionBackward} :
        StartAs(New(its, ViewWidth, h, 0, FALSE, dir, TRUE))

NextSel ==
    \/ InitCall
    \/ RunCmd
    \/ DoStartSelection
    \/ DoEndSelection
    \/ DoSelectionStop
    \/ DoSelectionClear
    \/ DoSelectWord
    \/ DoSelectParagraph
    \/ DoScrollUp
    \/ DoScrollDown

SpecSel == InitSel /\ [][NextSel]_vars

\* ---- Scenario: five single-line focusable items, gap 0, a viewport of three
\* lines, a list created in forward direction; the items stay as they are.

FiveIds == <<"a", "b", "c", "d", "e">>

FiveItems == [i \in DOMAIN FiveIds |-> Item(FiveIds[i], 1)]

InitFive == StartAs(New(FiveItems, ViewWidth, 3, 0, FALSE, DirectionForward, TRUE))

NextFive ==
    \/ InitCall
    \/ RunCmd
    \/ DoSetSelected(IdsOf(FiveItems))
    \/ DoMoveUp
    \/ DoMoveDown
    \/ DoGoToTop
    \/ DoGoToBottom
    \/ DoSelectItemAbove
    \/ DoSelectItemBelow
    \/ DoFocus
    \/ DoBlur

SpecFive == InitFive /\ [][NextFive]_vars

\* ---- Scenario: four single-line focusable items, gap 0, a viewport of two
\* lines, a focused list in either direction; items are selected one by one,
\* deleted and replaced by items of another height.

FourItems == [i \in 1..4 |-> Item(FiveIds[i], 1)]

InitEdit ==
    \E dir \in {DirectionForward, DirectionBackward} :
        StartAs(New(FourItems, ViewWidth, 2, 0, FALSE, dir, TRUE))

NextEdit ==
    \/ InitCall
    \/ RunCmd
    \/ DoSelectItemAbove
    \/ DoSelectItemBelow
    \/ DoDeleteItem(IdsOf(FourItems))
    \/ DoUpdateItem

SpecEdit == InitEdit /\ [][NextEdit]_vars

\* ---- Drawing: lists of at most two items with no gap that are drawn between
\* calls, so that View() has a stored view to return, and are resized,
\* refilled, scrolled and turned to the top or the bottom.

InitDraw ==
    \E its \in ItemSeqs(Items), h \in Heights,
       dir \in {DirectionForward, DirectionBackward} :
        StartAs(New(its, ViewWidth, h, 0, FALSE, dir, TRUE))

NextDraw ==
    \/ InitCall
    \/ RunCmd
    \/ DoView
    \/ DoSetSize
    \/ DoSetItems(Items)
    \/ DoMoveUp
    \/ DoMoveDown
    \/ DoGoToTop
    \/ DoGoToBottom

SpecDraw == InitDraw /\ [][NextDraw]_vars

\* ---- viewPosition on its own: every offset, viewport height, rendered height
\* and direction within the bounds, whether or not the mutators can produce
\* the combination.

\* A buffer of total one-character lines.
LinesBuffer(total) == JoinLines([i \in 1..total |-> <<"x">>])

\* A list whose buffer has total lines, with the given offset, height and
\* direction.
ViewList(off, h, total, dir) ==
    [setRendered(New(<<>>, ViewWidth, h, 0, FALSE, dir, TRUE), LinesBuffer(total))
        EXCEPT !.offset = off]

ViewLists ==
    {ViewList(off, h, total, dir) :
        off \in 0..MaxTotal, h \in 1..MaxTotal, total \in 1..MaxTotal,
        dir \in {DirectionForward, DirectionBackward}}

InitView == \E l \in ViewLists : StartAs(l)

\* The next combination of inputs.
NextView == \E l \in ViewLists : Apply(l)

SpecView == InitView /\ [][NextView]_vars

\* ------------------------------------------------------------ reference notions

\* The list has rendered every item and no continuation is pending.
FullyRendered(l) ==
    /\ l.cmds = <<>>
    /\ ~l.hung
    /\ \A i \in DOMAIN l.items : HasRendered(l, l.items[i].id)

\* Lines the views of its[1..n] and the gaps after them occupy.
RECURSIVE LinesBefore(_, _, _)
LinesBefore(its, n, g) ==
    IF n = 0 THEN 0
    ELSE LinesBefore(its, n - 1, g) + Len(its[n].lines) + g

\* First and last line of the item at 1-based position p in a complete buffer.
SpanStart(l, p) == LinesBefore(l.items, p - 1, l.gap)
SpanEnd(l, p) == SpanStart(l, p) + Len(l.items[p].lines) - 1

\* 1-based position of the item with identifier id, 0 when there is none.
PosOf(its, id) ==
    IF id \in IdsOf(its) THEN CHOOSE p \in DOMAIN its : its[p].id = id ELSE 0

\* The default selection of an item sequence: first focusable item in forward
\* direction, last focusable item in backward direction, none when no item is
\* focusable.
DefaultSelection(its, dir) ==
    LET foc == {p \in DOMAIN its : its[p].focusable}
    IN IF foc = {} THEN NoID
       ELSE IF dir = DirectionForward
       THEN its[CHOOSE p \in foc : \A q \in foc : p <= q].id
       ELSE its[CHOOSE p \in foc : \A q \in foc : q <= p].id

\* ------------------------------------------------------------ claims

\* C1 (as stated): on a list with at least one item, after every public mutator
\* and the commands it returned, 0 <= offset <= max(0, renderedHeight - height).
C1_OffsetWithinBounds ==
    (Idle /\ Len(items) >= 1)
        => (0 <= offset /\ offset <= Max2(0, renderedHeight - height))

\* C2 (as stated): for every list state and every item x whose identifier is not
\* in the list, AppendItem(x) then DeleteItem(x.ID()), each with its commands
\* run, leaves the rendered buffer equal to the buffer before the append.
C2_AppendDeleteRestoresBuffer ==
    FullyRendered(L) =>
        \A it \in Items :
            it.id \notin IdsOf(items) =>
                RunCmds(DeleteItem(RunCmds(AppendItem(L, it)), it.id)).rendered
                    = rendered

\* C3: getLines(start, end) returns lines start..end of the rendered buffer
\* joined by newlines; an end past the last line is clamped to the last line, a
\* start past the last line yields the empty string.
C3_GetLinesExact ==
    LET ls == Split(rendered)
        n == IF rendered = <<>> THEN 0 ELSE Len(ls)
    IN /\ rendered # <<>> => renderedHeight = n
       /\ \A st \in 0..(n + 1), en \in 0..(n + 1) :
             st <= en =>
                getLines(L, st, en) =
                    IF st >= n THEN <<>>
                    ELSE JoinLines(SubSeq(ls, st + 1, Min2(en, n - 1) + 1))

\* C3 witness: a first pass left a partial buffer of several lines, its
\* continuation extends it, and getLines slices the extended buffer.
C3_Witness ==
    /\ cmds # <<>>
    /\ renderedHeight >= 2
    /\ LET l2 == RunCmds(L)
       IN /\ l2.renderedHeight > renderedHeight + 1
          /\ getLines(l2, 1, l2.renderedHeight - 2) # <<>>
          /\ getLines(L, 0, 0) # <<>>

\* The visible range of r lies inside the lines the selected item occupies,
\* when the operation that led from l to r selected another item and that item
\* is at least as high as the viewport.
TallItemFillsViewport(l, r) ==
    LET p == PosOf(r.items, r.selectedItem)
        vp == viewPosition(r)
    IN (/\ p # 0
        /\ r.selectedItem # l.selectedItem
        /\ Len(r.items[p].lines) >= r.height)
           => (SpanStart(r, p) <= vp[1] /\ vp[2] <= SpanEnd(r, p))

\* C4 (as stated): whenever an item at least as high as the viewport becomes the
\* selected item of a focused, fully rendered list via SetSelected,
\* SelectItemAbove or SelectItemBelow, the visible range lies inside the item.
C4_TallSelectionFillsViewport ==
    (FullyRendered(L) /\ focused /\ items # <<>>) =>
        /\ \A id \in IdsOf(items) :
              TallItemFillsViewport(L, RunCmds(SetSelected(L, id)))
        /\ TallItemFillsViewport(L, RunCmds(SelectItemAbove(L)))
        /\ TallItemFillsViewport(L, RunCmds(SelectItemBelow(L)))

\* The lines of the rendered buffer the viewport shows.
VisibleLines(l) ==
    LET vp == viewPosition(l)
    IN Split(getLines(l, Max2(0, vp[1]), vp[2]))

\* The identifiers of the single-line items the viewport shows, top to bottom
\* (a line ends with the identifier of its item).
ShownIds(l) ==
    LET ls == VisibleLines(l)
    IN [i \in DOMAIN ls |-> IF ls[i] = <<>> THEN NoID ELSE ls[i][Len(ls[i])]]

\* The list after GoToBottom and then MoveUp(2), each with its commands run.
BottomThenUpTwo(l) == RunCmds(MoveUp(RunCmds(GoToBottom(l)), 2))

\* C5 (as stated): five single-line items, viewport 3, created forward and fully
\* rendered: after GoToBottom and MoveUp(2) the viewport shows items 2, 3, 4.
C5_ShowsItemsTwoToFour ==
    (FullyRendered(L) /\ direction = DirectionForward) =>
        ShownIds(BottomThenUpTwo(L)) = <<"c", "d", "e">>

\* C5 (amended): in that scenario the viewport shows items 0, 1 and 2 in their
\* original top-to-bottom order after GoToBottom and MoveUp(2).
C5_ShowsItemsZeroToTwo ==
    (FullyRendered(L) /\ direction = DirectionForward) =>
        ShownIds(BottomThenUpTwo(L)) = <<"a", "b", "c">>

\* C5 witness: the list went to the bottom and moved up by two lines.
C5_Witness ==
    /\ FullyRendered(L)
    /\ direction = DirectionBackward
    /\ offset = 2
    /\ ShownIds(L) = <<"a", "b", "c">>

\* The selection of l lies on one visible line of plain text, between two
\* different columns inside the text.
SingleLineSelection(l) ==
    LET ls == VisibleLines(l)
        y == l.selectionStartLine
    IN /\ l.rendered # <<>>
       /\ l.selectionStartLine = l.selectionEndLine
       /\ l.selectionStartCol # l.selectionEndCol
       /\ y >= 0 /\ y < l.height /\ y < Len(ls)
       /\ \A i \in DOMAIN ls[y + 1] : ls[y + 1][i] \notin SpecialChars
       /\ Min2(l.selectionStartCol, l.selectionEndCol) >= 0
       /\ Max2(l.selectionStartCol, l.selectionEndCol) < Len(ls[y + 1])

SelectedLine(l) == VisibleLines(l)[l.selectionStartLine + 1]
LeftCol(l) == Min2(l.selectionStartCol, l.selectionEndCol)
RightCol(l) == Max2(l.selectionStartCol, l.selectionEndCol)

\* C6 (as stated): a single-line selection with canonical columns [a, b] inside
\* the text yields the characters at columns a through b inclusive ("hello
\* world" with [0, 4] yields "hello").
C6_EndColumnInclusive ==
    SingleLineSelection(L) =>
        GetSelectedText(L) = SubSeq(SelectedLine(L), LeftCol(L) + 1, RightCol(L) + 1)

\* C6 (amended): a single-line selection with canonical columns [a, b] inside
\* the text yields the characters at columns a through b - 1, with the white
\* space around them trimmed ("hello world" with [0, 5] yields "hello").
C6_EndColumnExclusive ==
    SingleLineSelection(L) =>
        GetSelectedText(L) =
            TrimSpace(SubSeq(SelectedLine(L), LeftCol(L) + 1, RightCol(L)))

\* C6 witness: columns 0 and 5 of "hello world" are selected and the selected
\* text is "hello".
C6_Witness ==
    /\ SingleLineSelection(L)
    /\ SelectedLine(L) = HelloWorld
    /\ LeftCol(L) = 0 /\ RightCol(L) = 5
    /\ GetSelectedText(L) = SubSeq(HelloWorld, 1, 5)

\* C7 (as stated): DeleteItem of the selected identifier leaves the identifier
\* of the item that stood immediately before the deleted one selected, and no
\* selection when the deleted item was the first item.
C7_PrecedingOrNone ==
    (Idle /\ selectedItem \in IdsOf(items)) =>
        LET p == PosOf(items, selectedItem)
        IN DeleteItem(L, selectedItem).selectedItem =
              IF p > 1 THEN items[p - 1].id ELSE NoID

\* C7 (amended): DeleteItem of the selected identifier leaves the identifier of
\* the item that stood immediately before the deleted one selected; when the
\* deleted item was the first item it leaves the default selection of the
\* remaining items (first focusable item in forward direction, last focusable
\* item in backward direction), which is empty when none of them is focusable.
C7_PrecedingOrDefault ==
    (Idle /\ selectedItem \in IdsOf(items) /\ width > 0 /\ height > 0) =>
        LET p == PosOf(items, selectedItem)
        IN DeleteItem(L, selectedItem).selectedItem =
              IF p > 1 THEN items[p - 1].id
              ELSE DefaultSelection(Tail(items), direction)

\* C7 witness: the first item is selected, a separator follows it, and deleting
\* the first item moves the selection to the item after the separator.
C7_Witness ==
    /\ Idle
    /\ Len(items) >= 3
    /\ selectedItem = items[1].id
    /\ ~items[2].focusable
    /\ direction = DirectionForward
    /\ DeleteItem(L, selectedItem).selectedItem = items[3].id

\* The cells of the screen that View() draws with the selection background.
HighlightedCells(l) ==
    LET scr == Draw(View(l), l.width, l.height)
    IN {c \in (0..(l.width - 1)) \X (0..(l.height - 1)) : scr[c[2] + 1][c[1] + 1].bg}

\* C8 (as stated): with the line "foo bar baz" visible at offset 0,
\* SelectWord(6, line) selects exactly the cells of "bar": columns 4, 5 and 6
\* of that line.
C8_SelectWordSelectsBar ==
    \A line \in 0..(height - 1) :
        (/\ Idle
         /\ offset = 0
         /\ rendered # <<>>
         /\ line < Len(VisibleLines(L))
         /\ VisibleLines(L)[line + 1] = FooBarBaz)
            => HighlightedCells(SelectWord(L, 6, line)) =
                  {<<4, line>>, <<5, line>>, <<6, line>>}

\* The selection of l with its two endpoints exchanged.
Reversed(l) ==
    [l EXCEPT !.selectionStartCol = l.selectionEndCol,
              !.selectionStartLine = l.selectionEndLine,
              !.selectionEndCol = l.selectionStartCol,
              !.selectionEndLine = l.selectionStartLine]

\* C9: the selection from p to q and the selection from q to p give the same
\* selected text and the same highlighted cells, whatever the view shows.
C9_ReversedEndpointsAgree ==
    /\ GetSelectedText(Reversed(L)) = GetSelectedText(L)
    /\ HighlightedCells(Reversed(L)) = HighlightedCells(L)

\* C9 witness: a selection over several lines that ends above and left of its
\* start, with text selected and cells highlighted.
C9_Witness ==
    /\ selectionStartLine > selectionEndLine
    /\ selectionStartCol > selectionEndCol
    /\ HighlightedCells(L) # {}
    /\ LET text == GetSelectedText(L)
       IN \E i \in DOMAIN text : text[i] = NL

\* C10 (as stated): after every public operation and its commands the selected
\* identifier is empty or the identifier of an item of the store.
C10_SelectedItemExists ==
    (Idle /\ items # <<>>) =>
        (selectedItem = NoID \/ selectedItem \in IdsOf(items))

\* A view that shows nothing: the empty string, or blank cells only.
EmptyView(v) == \A y \in DOMAIN v : \A x \in DOMAIN v[y] : v[y][x] = BlankCell

\* C11 (as stated): whenever the item store is empty or the width or height is
\* <= 0, View() returns the empty view: no line of a previously rendered item
\* is shown.
C11_DegenerateViewEmpty ==
    (Idle /\ (items = <<>> \/ width <= 0 \/ height <= 0)) => EmptyView(View(L))

\* Positions of the focusable items of a sequence.
FocusablePositions(its) == {p \in DOMAIN its : its[p].focusable}

\* The identifier item navigation is to reach from position p: the nearest
\* focusable item after p; when there is none, the first focusable item with
\* wrap navigation and the item at p itself without.
ExpectedBelow(its, p, wr) ==
    LET foc == FocusablePositions(its)
        after == {q \in foc : q > p}
    IN IF after # {} THEN its[SetMin(after)].id
       ELSE IF wr /\ foc # {} THEN its[SetMin(foc)].id
       ELSE its[p].id

\* The same towards the start of the sequence.
ExpectedAbove(its, p, wr) ==
    LET foc == FocusablePositions(its)
        before == {q \in foc : q < p}
    IN IF before # {} THEN its[SetMax(before)].id
       ELSE IF wr /\ foc # {} THEN its[SetMax(foc)].id
       ELSE its[p].id

\* C12 (as stated): SelectItemBelow selects the nearest focusable item after
\* the current one; when none follows it selects the first focusable item with
\* wrap navigation and leaves the selection unchanged without; SelectItemAbove
\* is symmetric; also when non-focusable items stand between the current item
\* and the end of the sequence.
C12_SelectNextFocusable ==
    (FullyRendered(L) /\ PosOf(items, selectedItem) # 0) =>
        LET p == PosOf(items, selectedItem)
        IN /\ SelectItemBelow(L).selectedItem = ExpectedBelow(items, p, wrap)
           /\ SelectItemAbove(L).selectedItem = ExpectedAbove(items, p, wrap)

\* C13 (as stated): after GoToTop and its commands the visible range starts at
\* line 0 of the rendered buffer, after GoToBottom and its commands it ends at
\* the last line of the rendered buffer, for every item sequence.
C13_TopAndBottomReached ==
    (FullyRendered(L) /\ items # <<>>) =>
        LET t == RunCmds(GoToTop(L))
            b == RunCmds(GoToBottom(L))
        IN /\ viewPosition(t)[1] = 0
           /\ viewPosition(b)[2] = b.renderedHeight - 1

\* C14 (as stated): SelectItemAbove or SelectItemBelow on a non-empty, rendered
\* list whose selected identifier is not the identifier of any item resets the
\* selection to the default selection.
C14_StaleSelectionReset ==
    (Idle /\ items # <<>> /\ rendered # <<>> /\ selectedItem \notin IdsOf(items)) =>
        /\ RunCmds(SelectItemAbove(L)).selectedItem
              = DefaultSelection(items, direction)
        /\ RunCmds(SelectItemBelow(L)).selectedItem
              = DefaultSelection(items, direction)

\* A list that was built by New and has not been rendered yet.
BeforeInit(l) ==
    /\ l.cmds = <<>> /\ ~l.hung
    /\ l.items # <<>>
    /\ l.width > 0 /\ l.height > 0
    /\ l.rendered = <<>>
    /\ l.selectedItem = NoID

\* C15: after Init on a non-empty list with positive width and height and no
\* pre-selected identifier, when Init returns and after its commands, the
\* selected identifier is the first focusable item in forward direction and the
\* last focusable item in backward direction, and empty when no item is
\* focusable.
C15_InitSelectsDefault ==
    BeforeInit(L) =>
        /\ render(L).selectedItem = DefaultSelection(items, direction)
        /\ RunCmds(render(L)).selectedItem = DefaultSelection(items, direction)

\* C15 witness: the list starts with a separator and Init selects the item
\* after it, and a list of separators only keeps the empty selection.
C15_Witness ==
    /\ BeforeInit(L)
    /\ ~items[1].focusable
    /\ \/ /\ Len(items) >= 2
          /\ direction = DirectionForward
          /\ RunCmds(render(L)).selectedItem = items[2].id
       \/ /\ Len(items) = 1
          /\ RunCmds(render(L)).selectedItem = NoID

\* The character View() shows in the cell at (col, line) of the screen.
VisibleCell(l, col, line) == Draw(View(l), l.width, l.height)[line + 1][col + 1].ch

\* C16 (as stated): SelectWord(col, line) where the cell at (col, line) of the
\* visible text is a space yields an empty selection, whatever selection
\* existed before, at any scroll offset and in either direction.
C16_SelectWordOnSpaceEmpty ==
    Idle =>
        \A col \in Cols, line \in ScreenLines :
            VisibleCell(L, col, line) = SP => ~hasSelection(SelectWord(L, col, line))

\* The four selection endpoints of l.
Endpoints(l) ==
    <<l.selectionStartCol, l.selectionStartLine, l.selectionEndCol, l.selectionEndLine>>

\* The lists in which a drag that started at (col, line) is over: the button
\* was released, the selection cleared, or a word or a paragraph selected.
DragOver(l, col, line) ==
    LET s == StartSelection(l, col, line)
    IN {SelectionStop(s), SelectionClear(s),
        SelectWord(s, col, line), SelectParagraph(s, col, line)}

\* C17 (as stated): EndSelection moves the end of the rectangle while a drag is
\* in progress (after StartSelection), and leaves the four endpoints unchanged
\* once SelectionStop, SelectionClear, SelectWord or SelectParagraph was called;
\* right after StartSelection or SelectionClear there is no selection.
C17_EndSelectionOnlyWhileDragging ==
    Idle =>
        \A c1 \in Cols, y1 \in ScreenLines :
            /\ ~hasSelection(StartSelection(L, c1, y1))
            /\ ~hasSelection(SelectionClear(L))
            /\ \A c2 \in Cols, y2 \in ScreenLines :
                  /\ Endpoints(EndSelection(StartSelection(L, c1, y1), c2, y2))
                        = <<c1, y1, c2, y2>>
                  /\ \A e \in DragOver(L, c1, y1) :
                        Endpoints(EndSelection(e, c2, y2)) = Endpoints(e)

\* No two items of the sequence carry the same identifier.
UniqueIds(its) == \A i, j \in DOMAIN its : i # j => its[i].id # its[j].id

\* The index map holds exactly the identifiers of the items, each with the
\* position of its item.
IndexMapExact(l) ==
    /\ DOMAIN l.indexMap = IdsOf(l.items)
    /\ \A p \in DOMAIN l.items : l.indexMap[l.items[p].id] = p - 1

\* C18 (as stated): after any sequence of AppendItem, PrependItem, DeleteItem,
\* UpdateItem and SetItems that keeps the identifiers unique, the index map
\* holds exactly the current identifiers, each with the position of its item;
\* UpdateItem may be handed any item.
C18_IndexMapBijective ==
    Idle =>
        /\ IndexMapExact(L)
        /\ \A p \in DOMAIN items, it \in Items \cup {Item(UnknownID, 1)} :
              LET r == UpdateItem(L, items[p].id, it)
              IN UniqueIds(r.items) => IndexMapExact(r)

\* The views of the items its[p..], each followed by the gap, none after the last.
RECURSIVE ViewsFrom(_, _, _)
ViewsFrom(its, p, g) ==
    IF p > Len(its) THEN <<>>
    ELSE ItemView(its[p]) \o (IF p < Len(its) THEN RepeatNL(g + 1) ELSE <<>>)
             \o ViewsFrom(its, p + 1, g)

\* The buffer that holds the view of every current item once, in sequence order.
ExpectedBuffer(l) == ViewsFrom(l.items, 1, l.gap)

\* C19 (as stated): after every mutator and its commands, each item with a
\* render-cache entry has end = start + height - 1 and start equal to the line
\* at which its view begins in the rendered buffer.
C19_CachedPositionsExact ==
    (FullyRendered(L) /\ rendered = ExpectedBuffer(L)) =>
        \A p \in DOMAIN items :
            LET r == renderedItems[items[p].id]
            IN /\ r.end = r.start + r.height - 1
               /\ r.start = SpanStart(L, p)

\* C20 (as stated): when a continuation command runs after main-loop mutators
\* were processed in between, the rendered buffer afterwards holds the view of
\* every current item exactly once, in sequence order.
C20_ContinuationKeepsBuffer ==
    (cmds # <<>> /\ ~hung) =>
        /\ RunCmds(L).rendered = ExpectedBuffer(RunCmds(L))
        /\ \A it \in Items :
              it.id \notin IdsOf(items) =>
                  /\ RunCmds(AppendItem(L, it)).rendered
                        = ExpectedBuffer(RunCmds(AppendItem(L, it)))
                  /\ RunCmds(PrependItem(L, it)).rendered
                        = ExpectedBuffer(RunCmds(PrependItem(L, it)))
        /\ RunCmds(GoToBottom(L)).rendered = ExpectedBuffer(RunCmds(GoToBottom(L)))

\* The list after the main loop ran the oldest pending command.
RunNextCmd(l) == renderCmd([l EXCEPT !.cmds = Tail(@)], Head(l.cmds))

\* The continuation that is pending in l leaves the view as it is.
WindowKept(l) == (l.cmds # <<>> /\ ~l.hung) => View(RunNextCmd(l)) = View(l)

\* C21 (as stated): running the continuation pass does not move the visible
\* window: View() just before the continuation command runs equals View() just
\* after it, also when MoveUp/MoveDown scrolled between the first pass and the
\* continuation.
C21_ContinuationKeepsWindow ==
    (cmds # <<>> /\ ~hung) =>
        /\ WindowKept(L)
        /\ \A n \in 1..MaxMove :
              WindowKept(MoveDown(L, n)) /\ WindowKept(MoveUp(L, n))

\* The list l rendered from scratch in direction dir, without focus: first
\* pass, then its continuation.
LoadedAs(l, dir) ==
    RunCmds(render([l EXCEPT !.direction = dir, !.focused = FALSE]))

\* C22: after a complete render (first pass plus continuation, or a full
\* re-render) the rendered buffer is the item views in sequence order with
\* exactly gap blank lines between consecutive items and nothing after the
\* last; it is what one unbounded pass produces, and the buffer built in
\* backward direction equals the one built in forward direction.
C22_CompleteBufferInOrder ==
    /\ BeforeInit(L) =>
          /\ RunCmds(render(L)).rendered = ExpectedBuffer(RunCmds(render(L)))
          /\ LoadedAs(L, DirectionBackward).rendered
                = LoadedAs(L, DirectionForward).rendered
          /\ LoadedAs(L, DirectionBackward).rendered
                = renderIterator(L, 0, FALSE, <<>>).rendered
    /\ (Idle /\ items # <<>> /\ rendered # <<>>) =>
          /\ render(L).cmds = <<>>
          /\ render(L).rendered = ExpectedBuffer(render(L))
          /\ render(L).rendered
                = renderIterator(render(L), 0, FALSE, <<>>).rendered

\* C22 witness: a list of several items with a gap, built in backward
\* direction; the first pass renders only a part and the continuation
\* completes the buffer.
C22_Witness ==
    /\ BeforeInit(L)
    /\ direction = DirectionBackward
    /\ gap >= 1
    /\ Len(items) >= 2
    /\ render(L).cmds # <<>>
    /\ render(L).rendered # ExpectedBuffer(render(L))
    /\ RunCmds(render(L)).rendered = ExpectedBuffer(RunCmds(render(L)))

\* The offset of l is within its bounds.
OffsetWithinBounds(l) ==
    0 <= l.offset /\ l.offset <= Max2(0, l.renderedHeight - l.height)

\* C23 (as stated): for every offset >= 0, height >= 1 and rendered height
\* >= 1, viewPosition gives, in forward direction, start = max(0, offset) and
\* end = min(offset + height - 1, total - 1), in backward direction
\* end = max(0, total - 1 - offset) and start = max(0, end - height + 1);
\* start <= end always, and the range has min(height, total) lines whenever
\* the offset is within its bounds.
C23_ViewPositionAsSpecified ==
    (offset >= 0 /\ height >= 1 /\ renderedHeight >= 1) =>
        LET vp == viewPosition(L)
        IN /\ direction = DirectionForward =>
                 /\ vp[1] = Max2(0, offset)
                 /\ vp[2] = Min2(offset + height - 1, renderedHeight - 1)
           /\ direction = DirectionBackward =>
                 /\ vp[2] = Max2(0, renderedHeight - 1 - offset)
                 /\ vp[1] = Max2(0, vp[2] - height + 1)
           /\ vp[1] <= vp[2]
           /\ OffsetWithinBounds(L) =>
                 vp[2] - vp[1] + 1 = Min2(height, renderedHeight)

\* C23 (amended): as stated, but in forward direction
\* start = min(max(0, offset), end): an offset past the last line gives the
\* range that holds only the last line.
C23_ViewPositionClamped ==
    (offset >= 0 /\ height >= 1 /\ renderedHeight >= 1) =>
        LET vp == viewPosition(L)
        IN /\ direction = DirectionForward =>
                 /\ vp[2] = Min2(offset + height - 1, renderedHeight - 1)
                 /\ vp[1] = Min2(Max2(0, offset), vp[2])
           /\ direction = DirectionBackward =>
                 /\ vp[2] = Max2(0, renderedHeight - 1 - offset)
                 /\ vp[1] = Max2(0, vp[2] - height + 1)
           /\ vp[1] <= vp[2]
           /\ OffsetWithinBounds(L) =>
                 vp[2] - vp[1] + 1 = Min2(height, renderedHeight)

\* C23 witness: in forward direction the offset lies past the last line of
\* the buffer and the range holds only the last line.
C23_Witness ==
    /\ direction = DirectionForward
    /\ renderedHeight >= 2
    /\ offset >= renderedHeight
    /\ viewPosition(L) = <<renderedHeight - 1, renderedHeight - 1>>

\* C24 (as stated): after the first render pass of a list whose buffer is
\* empty, either every item has a render-cache entry or the rendered buffer has
\* at least viewport-height lines, and finishIndex is the number of items
\* rendered.
C24_FirstPassFillsViewport ==
    BeforeInit(L) =>
        LET r == render(L)
        IN /\ \/ \A p \in DOMAIN r.items : HasRendered(r, r.items[p].id)
              \/ r.renderedHeight >= r.height
           /\ r.cmds = <<Cardinality(DOMAIN r.renderedItems)>>

\* The render cache of l holds only current items, each with the view and the
\* height of the item as it is now.
CacheFresh(l) ==
    \A id \in DOMAIN l.renderedItems :
        /\ id \in IdsOf(l.items)
        /\ l.renderedItems[id].view = ItemView(l.items[PosOf(l.items, id)])
        /\ l.renderedItems[id].height
              = StrHeight(ItemView(l.items[PosOf(l.items, id)]))

OnlySelectedFocused(l) ==
    \A p \in DOMAIN l.items :
        l.items[p].focused <=> (l.items[p].id = l.selectedItem)

\* C26 (as stated): on a focused list, after SelectItemAbove, SelectItemBelow,
\* SetSelected, GoToTop, GoToBottom or DeleteItem of the selected item, each
\* with its commands, the previously selected item is blurred and the newly
\* selected item is focused: the selected item, and no other, is focused.
C26_FocusFollowsSelection ==
    (FullyRendered(L) /\ focused /\ items # <<>> /\ OnlySelectedFocused(L)) =>
        /\ OnlySelectedFocused(RunCmds(SelectItemAbove(L)))
        /\ OnlySelectedFocused(RunCmds(SelectItemBelow(L)))
        /\ OnlySelectedFocused(RunCmds(GoToTop(L)))
        /\ OnlySelectedFocused(RunCmds(GoToBottom(L)))
        /\ OnlySelectedFocused(RunCmds(DeleteItem(L, selectedItem)))
        /\ \A id \in Ids \cup {UnknownID} :
              OnlySelectedFocused(RunCmds(SetSelected(L, id)))

\* The lines the item at position p occupies in the buffer of l lie inside the
\* visible range of l.
EntirelyVisible(l, p) ==
    /\ viewPosition(l)[1] <= SpanStart(l, p)
    /\ SpanEnd(l, p) <= viewPosition(l)[2]

\* Distance between two offsets.
Dist(a, b) == IF a >= b THEN a - b ELSE b - a

\* r, reached from l by selecting another item that is lower than the
\* viewport, shows that item entirely, with the offset of l when that shows it
\* and otherwise with the nearest offset that does.
SelectionBroughtIntoView(l, r) ==
    LET p == PosOf(r.items, r.selectedItem)
    IN (/\ r.selectedItem # l.selectedItem
        /\ p # 0
        /\ r.direction = l.direction
        /\ FullyRendered(r)
        /\ Len(r.items[p].lines) < r.height) =>
           /\ EntirelyVisible(r, p)
           /\ EntirelyVisible([r EXCEPT !.offset = l.offset], p) => r.offset = l.offset
           /\ \A o \in 0..MaxLine :
                 Dist(o, l.offset) < Dist(r.offset, l.offset) =>
                    ~EntirelyVisible([r EXCEPT !.offset = o], p)

\* C27 (as stated): on a focused, fully rendered list, after SelectItemAbove or
\* SelectItemBelow selects an item lower than the viewport, the lines the item
\* occupies in the rendered buffer lie inside the visible range; the offset is
\* unchanged when they already did, and otherwise moves by the smallest amount
\* that makes the item entirely visible.
C27_SelectedItemEntirelyVisible ==
    (FullyRendered(L) /\ focused /\ items # <<>>) =>
        /\ SelectionBroughtIntoView(L, RunCmds(SelectItemAbove(L)))
        /\ SelectionBroughtIntoView(L, RunCmds(SelectItemBelow(L)))

\* The offset after MoveDown(n) or MoveUp(n), before the selection follows.
ScrolledOnly(l, n, down) ==
    IF down = (l.direction = DirectionForward)
    THEN incrementOffset(l, n)
    ELSE decrementOffset(l, n)

\* The lines of the item at position p of l contain the visible range of l,
\* or the edge that a search in the given direction meets first lies inside it.
MeetsWindow(l, p, down) ==
    LET vp == viewPosition(l)
        edge == IF down THEN SpanStart(l, p) ELSE SpanEnd(l, p)
    IN \/ (SpanStart(l, p) <= vp[1] /\ SpanEnd(l, p) >= vp[2])
       \/ (vp[1] <= edge /\ edge <= vp[2])

\* The selected item of l is partly or entirely outside the visible range, and
\* so is its middle line.
SelectionLeftWindow(l) ==
    LET p == PosOf(l.items, l.selectedItem)
        vp == viewPosition(l)
        mid == SpanStart(l, p) + (Len(l.items[p].lines) \div 2)
    IN /\ ~(SpanStart(l, p) <= vp[1] /\ SpanEnd(l, p) >= vp[2])
       /\ ~(SpanStart(l, p) >= vp[1] /\ SpanEnd(l, p) <= vp[2])
       /\ (mid < vp[1] \/ mid > vp[2])

\* Positions after (down) or before the selected item of l that hold a
\* focusable item that meets the window.
ScrollCandidates(l, down) ==
    {p \in DOMAIN l.items :
        /\ IF down THEN p > PosOf(l.items, l.selectedItem)
                   ELSE p < PosOf(l.items, l.selectedItem)
        /\ l.items[p].focusable
        /\ MeetsWindow(l, p, down)}

\* The candidate a search from the selected item meets first.
FirstCandidate(S, down) ==
    CHOOSE p \in S : \A q \in S : IF down THEN p <= q ELSE p >= q

\* r, reached from l by a scroll of n lines, has the selection the passive
\* re-selection rule gives; nothing is asked when the rule names no item.
FollowsScroll(l, n, down, r) ==
    LET l1 == ScrolledOnly(l, n, down)
    IN (/\ l1.offset # l.offset
        /\ ~r.hung
        /\ l.rendered = ExpectedBuffer(l)
        /\ l.selectedItem \in IdsOf(l.items)) =>
           IF SelectionLeftWindow(l1)
           THEN ScrollCandidates(l1, down) # {} =>
                   r.selectedItem
                      = l1.items[FirstCandidate(ScrollCandidates(l1, down), down)].id
           ELSE r.selectedItem = l.selectedItem

\* C28 (as stated): after a MoveUp/MoveDown that changes the offset, if the
\* selected item neither contains the visible range nor lies inside it and its
\* middle line is outside the visible range, the selection moves to the first
\* focusable item, searching from the selected item in the direction of the
\* scroll, that contains the visible range or has its leading edge inside it;
\* in every other case the selected identifier is unchanged.
C28_PassiveReselection ==
    (FullyRendered(L) /\ items # <<>>) =>
        \A n \in 1..MaxMove :
            /\ FollowsScroll(L, n, TRUE, RunCmds(MoveDown(L, n)))
            /\ FollowsScroll(L, n, FALSE, RunCmds(MoveUp(L, n)))

\* The buffer line shown on screen line `line` of l.
ShownLine(l, line) == viewPosition(l)[1] + line

\* No line of the buffer from line a to line b is blank.
NoBlankBetween(l, a, b) ==
    \A i \in a..b : ~IsBlankLine(Split(l.rendered)[i + 1])

\* First and last line of the maximal run of non-blank buffer lines around
\* buffer line k.
RunStart(l, k) == SetMin({a \in 0..k : NoBlankBetween(l, a, k)})
RunEnd(l, k) ==
    SetMax({b \in k..(Len(Split(l.rendered)) - 1) : NoBlankBetween(l, k, b)})

\* SelectParagraph on screen line `line` of l selects the whole width of the
\* screen lines that show the run of non-blank lines around the clicked one.
ParagraphSelected(l, col, line) ==
    LET k == ShownLine(l, line)
    IN (k <= viewPosition(l)[2] /\ ~IsBlankLine(Split(l.rendered)[k + 1])) =>
          /\ Endpoints(SelectParagraph(l, col, line))
                = <<0, RunStart(l, k) - viewPosition(l)[1],
                    l.width - 1, RunEnd(l, k) - viewPosition(l)[1]>>
          /\ ~SelectParagraph(l, col, line).selectionActive

C30_ScrollAlwaysReturns ==
    Idle =>
        \A n \in 0..MaxMove : ~MoveDown(L, n).hung /\ ~MoveUp(L, n).hung

\* The offset a scroll of n lines leads to: n lines further, or as many as
\* remain before the scroll limit.
OffsetAfterScroll(l, n, down) ==
    IF down = (l.direction = DirectionForward)
    THEN l.offset + Min2(n, Max2(0, Max2(0, l.renderedHeight - l.height) - l.offset))
    ELSE l.offset - Min2(n, l.offset)

\* r, reached from l by a scroll of n lines, has the window n lines further.
WindowMovedBy(l, n, down, r) ==
    ~r.hung => r.offset = OffsetAfterScroll(l, n, down) /\ r.direction = l.direction

\* C31 (as stated): MoveDown(n) and MoveUp(n) with n >= 0 move the visible
\* window by exactly min(n, lines remaining before the scroll limit) lines,
\* whatever preceded them; the move-by-item mode of an earlier
\* SelectItemAbove/SelectItemBelow does not make a later scroll re-align the
\* window to an item.
C31_ScrollMovesWindowByN ==
    (Idle /\ rendered # <<>>) =>
        \A n \in 0..MaxMove :
            /\ WindowMovedBy(L, n, TRUE, RunCmds(MoveDown(L, n)))
            /\ WindowMovedBy(L, n, FALSE, RunCmds(MoveUp(L, n)))

\* The selection endpoints of r are those of l, with both lines moved up
\* (down = TRUE) or down the screen by the lines the offset changed.
SelectionFollows(l, r, down) ==
    LET d == IF down THEN 0 - Dist(r.offset, l.offset) ELSE Dist(r.offset, l.offset)
    IN Endpoints(r) = <<l.selectionStartCol, l.selectionStartLine + d,
                        l.selectionEndCol, l.selectionEndLine + d>>

\* C32 (as stated): when MoveUp(n) or MoveDown(n) scrolls while a finished
\* selection exists, both selection endpoint lines shift by exactly the number
\* of lines the offset changed, also when n exceeds the remaining scroll room.
C32_SelectionShiftsWithOffset ==
    (Idle /\ hasSelection(L) /\ ~selectionActive) =>
        \A n \in 0..MaxMove :
            /\ SelectionFollows(L, RunCmds(MoveDown(L, n)), TRUE)
            /\ SelectionFollows(L, RunCmds(MoveUp(L, n)), FALSE)

\* The view computed from the buffer, offset, direction and size of l as they
\* are, whatever View() stored before.
FreshView(l) == View([l EXCEPT !.cachedViewDirty = TRUE])

\* C33 (as stated): View() always equals the view computed afresh from the
\* current rendered buffer, offset, direction and viewport size; the stored
\* view is never returned after one of these has changed.
C33_ViewIsFresh ==
    Idle => View(L) = FreshView(L)

\* Column col of the text s lies on a character of a word.
OnWord(s, col) == col < Len(s) /\ WordClass(s[col + 1]) = "letter"

\* First and last column of the word of s that column col lies on.
WordFirst(s, col) ==
    SetMin({a \in 0..col : \A x \in a..col : WordClass(s[x + 1]) = "letter"})
WordLast(s, col) ==
    SetMax({b \in col..(Len(s) - 1) : \A x \in col..b : WordClass(s[x + 1]) = "letter"})

\* SelectWord at (col, line) of l selects, on that line, from the first column
\* of the word at col to a column of that word or the one after it.
WordSelected(l, col, line) ==
    (line < Len(VisibleLines(l)) /\ OnWord(VisibleLines(l)[line + 1], col)) =>
        /\ hasSelection(SelectWord(l, col, line))
        /\ Endpoints(SelectWord(l, col, line))[2] = line
        /\ Endpoints(SelectWord(l, col, line))[4] = line
        /\ Endpoints(SelectWord(l, col, line))[1]
              = WordFirst(VisibleLines(l)[line + 1], col)
        /\ Endpoints(SelectWord(l, col, line))[3]
              > WordFirst(VisibleLines(l)[line + 1], col)
        /\ Endpoints(SelectWord(l, col, line))[3]
              <= WordLast(VisibleLines(l)[line + 1], col) + 1

\* C34 (as stated): for every rendered line and every column on a non-space
\* character of a word, the first and the last word of the line included,
\* SelectWord(col, line) produces a non-empty selection on that line that
\* starts at the first column of the word and covers only cells of the word.
C34_SelectWordSelectsWord ==
    (Idle /\ rendered # <<>>) =>
        \A col \in Cols, line \in ScreenLines : WordSelected(L, col, line)

====
